---- MODULE Spec2Model ----
(***************************************************************************)
(* Model of mullvad-daemon/src/resolver.rs: the launcher start_resolver,   *)
(* the worker thread it spawns, and the async main routine run_resolver.   *)
(* Each invocation of start_resolver is a "run" r \in Runs.                *)
(***************************************************************************)
EXTENDS Integers, Sequences, FiniteSets, TLC

\* ------------------------------------------------------------------ bounds
NumRuns == 2          \* invocations of start_resolver the caller may make
MaxCallerSteps == 1   \* other daemon work the caller performs
MaxQueries == 2       \* DNS queries in flight at the same time

Runs == 1..NumRuns
Queries == 1..MaxQueries

\* --------------------------------------------------------------- constants
Platforms == {"macos", "other"}        \* cfg(target_os = "macos") or not
Free == 0                              \* no run holds the port

\* A DNS name is a sequence of labels; Name::root() has none.
Root == << >>

\* LowerName::new(&name): every label lower-cased.
LowerLabel(l) ==
    CASE l = "COM" -> "com"
      [] l = "Example" -> "example"
      [] OTHER -> l

LowerName(n) == [i \in DOMAIN n |-> LowerLabel(n[i])]

\* NameServerConfigGroup::cloudflare()
Cloudflare == {"1.1.1.1", "1.0.0.1"}

\* ForwardConfig { name_servers: cloudflare(), options: None }
ForwardConfig == [name_servers |-> Cloudflare, options |-> "None"]

\* ForwardAuthority::try_from_config(Name::root(), ZoneType::Forward, &config)
ForwardAuthority ==
    [origin |-> Root, zone_type |-> "Forward", config |-> ForwardConfig]

NoAuthority == [origin |-> Root, zone_type |-> "None", config |-> "None"]

\* Catalog::new(): no zones.
CatalogNew == << >>

\* Mutant of CatalogUpsert: the zone is stored under a non-root key too.
CatalogUpsertExtraZone(cat, name, auth) ==
    [n \in DOMAIN cat \cup {name, <<"com">>} |-> auth]

\* Mutant of CatalogUpsert: the zone is stored under "com" instead.
CatalogUpsertUnderCom(cat, name, auth) ==
    [n \in DOMAIN cat \cup {<<"com">>} |-> auth]

\* Catalog::upsert(name, authority): insert or replace the zone's entry.
CatalogUpsert(cat, name, auth) ==
    [n \in DOMAIN cat \cup {name} |-> IF n = name THEN auth ELSE cat[n]]

\* Mutant of SharedHandle: the authority is shared behind a mutex.
SharedHandleMutex(auth) == [lock |-> "Mutex", authority |-> auth]

\* Box::new(Arc::new(RwLock::new(authority)))
SharedHandle(auth) == [lock |-> "RwLock", authority |-> auth]

\* A log record: level, format string, argument.
Entry(level, fmt, arg) == [level |-> level, fmt |-> fmt, arg |-> arg]

ErrSetGid == Entry("error", "Failed to set group ID", "")
DbgRunning == Entry("debug", "Running DNS resolver", "")
ErrStopped == Entry("error", "Resolver stopped unexpectedly", "")
ErrFailed(msg) == Entry("error", "Failed to run resolver: {}", msg)

\* Result<(), String> of run_resolver
Pending == [tag |-> "Pending", msg |-> ""]
Ok == [tag |-> "Ok", msg |-> ""]
Err(msg) == [tag |-> "Err", msg |-> msg]

\* No handler task exists for the query.
Idle == [st |-> "idle", run |-> 0, zone |-> Root]

NoAttempts == [auth |-> 0, udp |-> 0, tcp |-> 0, serving |-> 0, term |-> 0]

VARIABLES
    platform,     \* target OS of the build
    host,         \* the daemon process: "running" or "aborted"
    callerPc,     \* the calling thread: "idle" or "in_start_resolver"
    callerSteps,  \* units of other work the caller has done
    spawned,      \* number of start_resolver invocations so far
    pc,           \* pc[r]: next statement of run r's worker thread
    gid,          \* gid[r]: result of get_exclusion_gid ("unset","None","Some")
    rt,           \* rt[r]: the tokio Runtime of run r exists
    authority,    \* authority[r]: value built by forwarder_authority
    catalog,      \* catalog[r]: zone name -> shared authority handle
    udpPort,      \* run holding 0.0.0.0:53/udp, or Free
    tcpPort,      \* run holding 0.0.0.0:53/tcp, or Free
    registered,   \* registered[r]: transports registered with ServerFuture
    result,       \* result[r]: value returned by run_resolver
    log,          \* log[r]: records emitted by run r, in order
    failure,      \* failure[r]: the failure that ended run r, or "none"
    attempts,     \* attempts[r]: how often each step of run r was taken
    queries,      \* queries[q]: the handler task of query q and what it holds
    writers,      \* writers[r]: zones whose handle is held for write
    responses     \* the responses sent back to clients so far

vars == <<platform, host, callerPc, callerSteps, spawned, pc, gid, rt,
          authority, catalog, udpPort, tcpPort, registered, result, log,
          failure, attempts, queries, writers, responses>>

callerVars == <<callerPc, callerSteps, spawned>>

queryVars == <<queries, writers, responses>>

Init ==
    /\ platform \in Platforms
    /\ host = "running"
    /\ callerPc = "idle"
    /\ callerSteps = 0
    /\ spawned = 0
    /\ pc = [r \in Runs |-> "unspawned"]
    /\ gid = [r \in Runs |-> "unset"]
    /\ rt = [r \in Runs |-> FALSE]
    /\ authority = [r \in Runs |-> NoAuthority]
    /\ catalog = [r \in Runs |-> CatalogNew]
    /\ udpPort = Free
    /\ tcpPort = Free
    /\ registered = [r \in Runs |-> {}]
    /\ result = [r \in Runs |-> Pending]
    /\ log = [r \in Runs |-> << >>]
    /\ failure = [r \in Runs |-> "none"]
    /\ attempts = [r \in Runs |-> NoAttempts]
    /\ queries = [q \in Queries |-> Idle]
    /\ writers = [r \in Runs |-> {}]
    /\ responses = {}

\* Mutant of EntryPc: the gate is compiled in on every platform.
EntryPcGated == "get_gid"

\* First statement of the spawned closure: the cfg(target_os = "macos")
\* block exists only in the macOS build.
EntryPc == IF platform = "macos" THEN "get_gid" ELSE "rt_new"

Bump(r, field) ==
    [attempts EXCEPT ![r] = [@ EXCEPT ![field] = @ + 1]]

\* Leave the closure before run_resolver was called: the thread ends, nothing
\* was created.
ThreadEnds(r, why) ==
    /\ pc' = [pc EXCEPT ![r] = "exited"]
    /\ failure' = [failure EXCEPT ![r] = why]
    /\ attempts' = Bump(r, "term")

\* run_resolver returns res to rt.block_on(..) at line 34.
Return(r, res, why) ==
    /\ pc' = [pc EXCEPT ![r] = "match"]
    /\ result' = [result EXCEPT ![r] = res]
    /\ failure' = [failure EXCEPT ![r] = why]

\* ------------------------------------------------------------ the caller
\* start_resolver(): std::thread::spawn(closure); the JoinHandle is dropped.
StartResolver ==
    /\ host = "running"
    /\ callerPc = "idle"
    /\ spawned < NumRuns
    /\ spawned' = spawned + 1
    /\ pc' = [pc EXCEPT ![spawned + 1] = EntryPc]
    /\ callerPc' = "in_start_resolver"
    /\ UNCHANGED queryVars
    /\ UNCHANGED <<platform, host, callerSteps, gid, rt, authority, catalog,
                   udpPort, tcpPort, registered, result, log, failure,
                   attempts>>

\* start_resolver returns to its caller (line 41); nothing is awaited.
StartResolverReturn ==
    /\ host = "running"
    /\ callerPc = "in_start_resolver"
    /\ callerPc' = "idle"
    /\ UNCHANGED queryVars
    /\ UNCHANGED <<platform, host, callerSteps, spawned, pc, gid, rt,
                   authority, catalog, udpPort, tcpPort, registered, result,
                   log, failure, attempts>>

\* The daemon goes on with its other work.
CallerWork ==
    /\ host = "running"
    /\ callerPc = "idle"
    /\ callerSteps < MaxCallerSteps
    /\ callerSteps' = callerSteps + 1
    /\ UNCHANGED queryVars
    /\ UNCHANGED <<platform, host, callerPc, spawned, pc, gid, rt, authority,
                   catalog, udpPort, tcpPort, registered, result, log,
                   failure, attempts>>

\* ------------------------------------------------------ the platform gate
\* Mutant of GateNone: the worker goes on without an exclusion gid.
GateNoneProceeds(r) ==
    /\ gid' = [gid EXCEPT ![r] = "None"]
    /\ pc' = [pc EXCEPT ![r] = "rt_new"]
    /\ UNCHANGED <<log, failure, attempts>>

\* Mutant of GateNone: the missing gid is reported.
GateNoneLogs(r) ==
    /\ gid' = [gid EXCEPT ![r] = "None"]
    /\ log' = [log EXCEPT ![r] = Append(@, ErrSetGid)]
    /\ ThreadEnds(r, "no_gid")

\* get_exclusion_gid() is None: the else branch returns (lines 28-30).
GateNone(r) ==
    /\ gid' = [gid EXCEPT ![r] = "None"]
    /\ ThreadEnds(r, "no_gid")
    /\ UNCHANGED log

\* get_exclusion_gid() is Some(gid) (line 22).
GateSome(r) ==
    /\ gid' = [gid EXCEPT ![r] = "Some"]
    /\ pc' = [pc EXCEPT ![r] = "setgid"]
    /\ UNCHANGED <<log, failure, attempts>>

GetExclusionGid(r) ==
    /\ host = "running"
    /\ pc[r] = "get_gid"
    /\ (GateNone(r) \/ GateSome(r))
    /\ UNCHANGED queryVars
    /\ UNCHANGED <<platform, host, callerVars, rt, authority, catalog,
                   udpPort, tcpPort, registered, result>>

\* Mutant of SetGidFails: the return value of setgid is ignored.
SetGidFailsIgnored(r) ==
    /\ failure' = [failure EXCEPT ![r] = "setgid"]
    /\ pc' = [pc EXCEPT ![r] = "rt_new"]
    /\ UNCHANGED <<log, attempts>>

\* libc::setgid(gid) != 0: log the error and return (lines 24-27).
SetGidFails(r) ==
    /\ log' = [log EXCEPT ![r] = Append(@, ErrSetGid)]
    /\ ThreadEnds(r, "setgid")

\* libc::setgid(gid) = 0.
SetGidOk(r) ==
    /\ pc' = [pc EXCEPT ![r] = "rt_new"]
    /\ UNCHANGED <<log, failure, attempts>>

SetGid(r) ==
    /\ host = "running"
    /\ pc[r] = "setgid"
    /\ \E ret \in {0, -1} : IF ret # 0 THEN SetGidFails(r) ELSE SetGidOk(r)
    /\ UNCHANGED queryVars
    /\ UNCHANGED <<platform, host, callerVars, gid, rt, authority, catalog,
                   udpPort, tcpPort, registered, result>>

\* ------------------------------------------------------------ the runtime
\* Mutant of WorkerPanics: the panic takes the whole process down.
WorkerPanicsAborts(r) ==
    /\ host' = "aborted"
    /\ ThreadEnds(r, "runtime")

\* expect(..) on a failed Runtime::new() panics; the panic unwinds the
\* spawned thread only and is dropped with its JoinHandle.
WorkerPanics(r) ==
    /\ host' = host
    /\ ThreadEnds(r, "runtime")

\* Runtime::new().expect("failed to initialize tokio runtime") (line 32)
RuntimeNew(r) ==
    /\ host = "running"
    /\ pc[r] = "rt_new"
    /\ \E ok \in BOOLEAN :
          IF ok
          THEN /\ rt' = [rt EXCEPT ![r] = TRUE]
               /\ pc' = [pc EXCEPT ![r] = "log_debug"]
               /\ UNCHANGED <<host, failure, attempts>>
          ELSE /\ WorkerPanics(r)
               /\ UNCHANGED rt
    /\ UNCHANGED queryVars
    /\ UNCHANGED <<platform, callerVars, gid, authority, catalog, udpPort,
                   tcpPort, registered, result, log>>

\* Mutant of AfterLogPc: the sockets are bound before the authority exists.
AfterLogPcBindsFirst == "udp_bind"

\* After the debug record, block_on polls run_resolver up to its first await.
AfterLogPc == "authority"

\* log::debug!("Running DNS resolver"); rt.block_on(run_resolver()) begins:
\* let mut catalog = Catalog::new() (lines 33-34, 52).
LogRunning(r) ==
    /\ host = "running"
    /\ pc[r] = "log_debug"
    /\ log' = [log EXCEPT ![r] = Append(@, DbgRunning)]
    /\ catalog' = [catalog EXCEPT ![r] = CatalogNew]
    /\ pc' = [pc EXCEPT ![r] = AfterLogPc]
    /\ UNCHANGED queryVars
    /\ UNCHANGED <<platform, host, callerVars, gid, rt, authority, udpPort,
                   tcpPort, registered, result, failure, attempts>>

\* ----------------------------------------------------------- run_resolver
\* Mutant of AuthorityFails: the error is swallowed and the run goes on.
AuthorityFailsSwallowed(r) ==
    /\ failure' = [failure EXCEPT ![r] = "authority"]
    /\ pc' = [pc EXCEPT ![r] = "upsert"]
    /\ UNCHANGED <<authority, result>>

\* forwarder_authority().await? with Err(e): run_resolver returns Err(e).
AuthorityFails(r) ==
    /\ Return(r, Err("authority"), "authority")
    /\ UNCHANGED authority

\* forwarder_authority().await (lines 43-50, 56)
ForwarderAuthority(r) ==
    /\ host = "running"
    /\ pc[r] = "authority"
    /\ attempts' = Bump(r, "auth")
    /\ \E ok \in BOOLEAN :
          IF ok
          THEN /\ authority' = [authority EXCEPT ![r] = ForwardAuthority]
               /\ pc' = [pc EXCEPT ![r] = "upsert"]
               /\ UNCHANGED <<result, failure>>
          ELSE AuthorityFails(r)
    /\ UNCHANGED queryVars
    /\ UNCHANGED <<platform, host, callerVars, gid, rt, catalog, udpPort,
                   tcpPort, registered, log>>

\* catalog.upsert(LowerName::new(&Name::root()), Box::new(Arc::new(
\* RwLock::new(authority)))); ServerFuture::new(catalog) (lines 54-59)
Upsert(r) ==
    /\ host = "running"
    /\ pc[r] = "upsert"
    /\ catalog' = [catalog EXCEPT ![r] =
           CatalogUpsert(@, LowerName(Root), SharedHandle(authority[r]))]
    /\ pc' = [pc EXCEPT ![r] = "udp_bind"]
    /\ UNCHANGED queryVars
    /\ UNCHANGED <<platform, host, callerVars, gid, rt, authority, udpPort,
                   tcpPort, registered, result, log, failure, attempts>>

\* Mutant of UdpBindFails: the bind is tried again.
UdpBindFailsRetries(r) ==
    /\ failure' = [failure EXCEPT ![r] = "udp_bind"]
    /\ UNCHANGED <<pc, result, udpPort>>

\* Mutant of UdpBindFails: the TCP listener is bound all the same.
UdpBindFailsTriesTcp(r) ==
    /\ failure' = [failure EXCEPT ![r] = "udp_bind"]
    /\ pc' = [pc EXCEPT ![r] = "tcp_bind"]
    /\ UNCHANGED <<result, udpPort>>

\* UdpSocket::bind(..).await.map_err(..)? with Err: return Err (line 62).
UdpBindFails(r) ==
    /\ Return(r, Err("udp bind"), "udp_bind")
    /\ UNCHANGED udpPort

\* Mutant of UdpBind: the socket is bound with address reuse, so the bind
\* succeeds while another socket holds the port.
UdpBindShared(r) ==
    /\ host = "running"
    /\ pc[r] = "udp_bind"
    /\ attempts' = Bump(r, "udp")
    /\ udpPort' = r
    /\ pc' = [pc EXCEPT ![r] = "tcp_bind"]
    /\ UNCHANGED queryVars
    /\ UNCHANGED <<platform, host, callerVars, gid, rt, authority, catalog,
                   tcpPort, registered, result, failure, log>>

\* UdpSocket::bind("0.0.0.0:53") (lines 60-62). The bind cannot succeed
\* while another socket holds the port; it may fail for any other reason
\* (port held by another process, missing privilege).
UdpBind(r) ==
    /\ host = "running"
    /\ pc[r] = "udp_bind"
    /\ attempts' = Bump(r, "udp")
    /\ \E ok \in BOOLEAN :
          /\ ok => udpPort = Free
          /\ IF ok
             THEN /\ udpPort' = r
                  /\ pc' = [pc EXCEPT ![r] = "tcp_bind"]
                  /\ UNCHANGED <<result, failure>>
             ELSE UdpBindFails(r)
    /\ UNCHANGED queryVars
    /\ UNCHANGED <<platform, host, callerVars, gid, rt, authority, catalog,
                   tcpPort, registered, log>>

\* Mutant of TcpBindFails: the UDP socket is registered and served anyway.
TcpBindFailsServesUdp(r) ==
    /\ failure' = [failure EXCEPT ![r] = "tcp_bind"]
    /\ registered' = [registered EXCEPT ![r] = @ \cup {"udp"}]
    /\ pc' = [pc EXCEPT ![r] = "block_until_done"]
    /\ UNCHANGED <<result, udpPort>>

\* Mutant of TcpBindFails: the bound UDP socket is kept alive (leaked).
TcpBindFailsKeepsUdp(r) ==
    /\ Return(r, Err("tcp bind"), "tcp_bind")
    /\ UNCHANGED <<udpPort, registered>>

\* TcpListener::bind(..).await.map_err(..)? with Err: return Err (line 65);
\* udp_sock goes out of scope and its port is released.
TcpBindFails(r) ==
    /\ Return(r, Err("tcp bind"), "tcp_bind")
    /\ udpPort' = Free
    /\ UNCHANGED registered

\* TcpListener::bind("0.0.0.0:53") (lines 63-65)
TcpBind(r) ==
    /\ host = "running"
    /\ pc[r] = "tcp_bind"
    /\ attempts' = Bump(r, "tcp")
    /\ \E ok \in BOOLEAN :
          /\ ok => tcpPort = Free
          /\ IF ok
             THEN /\ tcpPort' = r
                  /\ pc' = [pc EXCEPT ![r] = "reg_udp"]
                  /\ UNCHANGED <<result, failure, udpPort, registered>>
             ELSE /\ TcpBindFails(r)
                  /\ UNCHANGED tcpPort
    /\ UNCHANGED queryVars
    /\ UNCHANGED <<platform, host, callerVars, gid, rt, authority, catalog,
                   log>>

\* server_future.register_socket(udp_sock) (line 66)
RegisterSocket(r) ==
    /\ host = "running"
    /\ pc[r] = "reg_udp"
    /\ registered' = [registered EXCEPT ![r] = @ \cup {"udp"}]
    /\ pc' = [pc EXCEPT ![r] = "reg_tcp"]
    /\ UNCHANGED queryVars
    /\ UNCHANGED <<platform, host, callerVars, gid, rt, authority, catalog,
                   udpPort, tcpPort, result, log, failure, attempts>>

\* Mutant of RegisterListener: a second zone is inserted for the listener.
RegisterListenerInsertsZone(r) ==
    /\ host = "running"
    /\ pc[r] = "reg_tcp"
    /\ registered' = [registered EXCEPT ![r] = @ \cup {"tcp"}]
    /\ catalog' = [catalog EXCEPT ![r] =
           CatalogUpsert(@, <<"com">>, SharedHandle(authority[r]))]
    /\ pc' = [pc EXCEPT ![r] = "block_until_done"]
    /\ UNCHANGED queryVars
    /\ UNCHANGED <<platform, host, callerVars, gid, rt, authority,
                   udpPort, tcpPort, result, log, failure, attempts>>

\* server_future.register_listener(tcp_sock, Duration::from_secs(1)) (line 67)
RegisterListener(r) ==
    /\ host = "running"
    /\ pc[r] = "reg_tcp"
    /\ registered' = [registered EXCEPT ![r] = @ \cup {"tcp"}]
    /\ pc' = [pc EXCEPT ![r] = "block_until_done"]
    /\ UNCHANGED queryVars
    /\ UNCHANGED <<platform, host, callerVars, gid, rt, authority, catalog,
                   udpPort, tcpPort, result, log, failure, attempts>>

\* server_future.block_until_done().await is entered (lines 68-70): the run
\* is serving.
BlockUntilDone(r) ==
    /\ host = "running"
    /\ pc[r] = "block_until_done"
    /\ pc' = [pc EXCEPT ![r] = "serving"]
    /\ attempts' = Bump(r, "serving")
    /\ UNCHANGED queryVars
    /\ UNCHANGED <<platform, host, callerVars, gid, rt, authority, catalog,
                   udpPort, tcpPort, registered, result, log, failure>>

\* block_until_done() completes: Ok(()) when the server tasks are done, or
\* map_err(..) of a transport error (line 71). run_resolver returns it.
ServeEnds(r) ==
    /\ host = "running"
    /\ pc[r] = "serving"
    /\ \E ok \in BOOLEAN :
          IF ok THEN Return(r, Ok, "none") ELSE Return(r, Err("serve"), "serve")
    /\ UNCHANGED queryVars
    /\ UNCHANGED <<platform, host, callerVars, gid, rt, authority, catalog,
                   udpPort, tcpPort, registered, log, attempts>>

\* Mutant of OutcomeEntries: a clean return is taken for success.
OutcomeEntriesOkSilent(res) ==
    IF res.tag = "Ok" THEN << >> ELSE <<ErrFailed(res.msg)>>

\* Mutant of OutcomeEntries: the error of the run is dropped.
OutcomeEntriesErrSilent(res) ==
    IF res.tag = "Ok" THEN <<ErrStopped>> ELSE << >>

\* match rt.block_on(run_resolver()) { Ok(_) => .., Err(err) => .. }
\* (lines 34-39): the records the launcher emits for an outcome.
OutcomeEntries(res) ==
    IF res.tag = "Ok" THEN <<ErrStopped>> ELSE <<ErrFailed(res.msg)>>

\* The terminal handler of the launcher (lines 34-39).
HandleOutcome(r) ==
    /\ host = "running"
    /\ pc[r] = "match"
    /\ log' = [log EXCEPT ![r] = @ \o OutcomeEntries(result[r])]
    /\ pc' = [pc EXCEPT ![r] = "closure_end"]
    /\ attempts' = Bump(r, "term")
    /\ UNCHANGED queryVars
    /\ UNCHANGED <<platform, host, callerVars, gid, rt, authority, catalog,
                   udpPort, tcpPort, registered, result, failure>>

\* Dropping rt (line 40) drops the server tasks one by one; each closes the
\* socket it owns.
DropServerTask(r) ==
    /\ host = "running"
    /\ pc[r] = "closure_end"
    /\ \E t \in registered[r] :
          /\ registered' = [registered EXCEPT ![r] = @ \ {t}]
          /\ udpPort' = IF t = "udp" THEN Free ELSE udpPort
          /\ tcpPort' = IF t = "tcp" THEN Free ELSE tcpPort
    /\ UNCHANGED queryVars
    /\ UNCHANGED <<platform, host, callerVars, pc, gid, rt, authority,
                   catalog, result, log, failure, attempts>>

\* End of the closure (line 40): rt is dropped, and with it the server tasks,
\* the query handlers still running, their sockets and the catalog; the
\* thread ends.
ThreadExit(r) ==
    /\ host = "running"
    /\ pc[r] = "closure_end"
    /\ registered[r] = {}
    /\ pc' = [pc EXCEPT ![r] = "exited"]
    /\ rt' = [rt EXCEPT ![r] = FALSE]
    /\ catalog' = [catalog EXCEPT ![r] = CatalogNew]
    /\ registered' = [registered EXCEPT ![r] = {}]
    /\ udpPort' = IF udpPort = r THEN Free ELSE udpPort
    /\ tcpPort' = IF tcpPort = r THEN Free ELSE tcpPort
    /\ queries' = [q \in Queries |->
                       IF queries[q].run = r THEN Idle ELSE queries[q]]
    /\ UNCHANGED <<platform, host, callerVars, gid, authority, result, log,
                   failure, attempts, writers, responses>>

\* ------------------------------------------------------- query handling
\* Names the clients ask for.
QueryNames == {Root, <<"com">>, <<"Example", "COM">>, <<"www", "example", "org">>}

NoZone == [found |-> FALSE, zone |-> Root]
Zone(z) == [found |-> TRUE, zone |-> z]

\* The catalog's zone for a name: the longest suffix of the name that is a
\* key of the catalog; the root is a suffix of every name.
RECURSIVE CatalogFind(_, _)
CatalogFind(cat, name) ==
    IF name \in DOMAIN cat THEN Zone(name)
    ELSE IF name = Root THEN NoZone
    ELSE CatalogFind(cat, Tail(name))

\* A reader may enter an RwLock unless a writer holds it.
CanRead(handle, readers, writer) ==
    IF handle.lock = "RwLock" THEN ~writer ELSE readers = 0 /\ ~writer

\* The answer an authority gives: a forwarding authority relays the answer
\* of its name servers.
Answer(auth) ==
    IF auth.zone_type = "Forward"
    THEN [kind |-> "forwarded", from |-> auth.config.name_servers]
    ELSE [kind |-> "local", from |-> {}]

Refused == [kind |-> "refused", from |-> {}]

\* Queries of run r holding read access to the handle of zone z.
Readers(r, z) ==
    Cardinality({q \in Queries : queries[q] = [st |-> "reading", run |-> r, zone |-> z]})

\* The registered UDP socket of run r receives query q; a handler task is
\* spawned for it on the runtime.
QueryArrive(r, q) ==
    /\ host = "running"
    /\ rt[r]
    /\ "udp" \in registered[r]
    /\ queries[q] = Idle
    /\ queries' = [queries EXCEPT ![q] = [st |-> "received", run |-> r, zone |-> Root]]
    /\ UNCHANGED <<writers, responses>>
    /\ UNCHANGED <<platform, host, callerVars, pc, gid, rt, authority,
                   catalog, udpPort, tcpPort, registered, result, log,
                   failure, attempts>>

\* The handler of query q looks the name up in the catalog and takes read
\* access to the zone's authority handle; without a zone the query is refused.
QueryLookup(q) ==
    /\ host = "running"
    /\ queries[q].st = "received"
    /\ rt[queries[q].run]
    /\ \E name \in QueryNames :
          LET r == queries[q].run
              found == CatalogFind(catalog[r], LowerName(name)) IN
          IF found.found
          THEN /\ CanRead(catalog[r][found.zone], Readers(r, found.zone),
                          found.zone \in writers[r])
               /\ queries' = [queries EXCEPT ![q] =
                                 [st |-> "reading", run |-> r, zone |-> found.zone]]
               /\ UNCHANGED responses
          ELSE /\ responses' = responses \cup {Refused}
               /\ queries' = [queries EXCEPT ![q] = Idle]
    /\ UNCHANGED writers
    /\ UNCHANGED <<platform, host, callerVars, pc, gid, rt, authority,
                   catalog, udpPort, tcpPort, registered, result, log,
                   failure, attempts>>

\* The handler of query q gets its answer from the authority, releases the
\* read access and sends the response; the task ends.
QueryRespond(q) ==
    /\ host = "running"
    /\ queries[q].st = "reading"
    /\ rt[queries[q].run]
    /\ responses' = responses \cup
           {Answer(catalog[queries[q].run][queries[q].zone].authority)}
    /\ queries' = [queries EXCEPT ![q] = Idle]
    /\ UNCHANGED writers
    /\ UNCHANGED <<platform, host, callerVars, pc, gid, rt, authority,
                   catalog, udpPort, tcpPort, registered, result, log,
                   failure, attempts>>

\* One step of run r's worker thread.
RunStep(r) ==
    \/ GetExclusionGid(r)
    \/ SetGid(r)
    \/ RuntimeNew(r)
    \/ LogRunning(r)
    \/ ForwarderAuthority(r)
    \/ Upsert(r)
    \/ UdpBind(r)
    \/ TcpBind(r)
    \/ RegisterSocket(r)
    \/ RegisterListener(r)
    \/ BlockUntilDone(r)
    \/ ServeEnds(r)
    \/ HandleOutcome(r)
    \/ DropServerTask(r)
    \/ ThreadExit(r)

\* One step in the handling of query q by the server tasks.
ServerStep(q) ==
    \/ \E r \in Runs : QueryArrive(r, q)
    \/ QueryLookup(q)
    \/ QueryRespond(q)

Next ==
    \/ StartResolver
    \/ StartResolverReturn
    \/ CallerWork
    \/ \E r \in Runs : RunStep(r)

\* The launcher and its runs, with no client sending a query.
Spec == Init /\ [][Next]_vars

\* The launcher and its runs with clients sending queries.
ServeNext ==
    \/ Next
    \/ \E q \in Queries : ServerStep(q)

ServeSpec == Init /\ [][ServeNext]_vars

\* The runtime polls every handler task that can make progress, and the
\* forwarder's requests to the name servers end (with an answer or a timeout).
LiveSpec ==
    /\ ServeSpec
    /\ \A q \in Queries : WF_vars(QueryLookup(q)) /\ WF_vars(QueryRespond(q))

\* ------------------------------------------------------------- properties
\* The stage of run r in the per-run state machine.
Stage(r) ==
    CASE pc[r] \in {"unspawned", "get_gid", "setgid"} -> "NotStarted"
      [] pc[r] \in {"rt_new", "log_debug", "authority"} -> "PlatformGateChecked"
      [] pc[r] = "upsert" -> "AuthorityBuilt"
      [] pc[r] \in {"udp_bind", "tcp_bind"} -> "CatalogAssembled"
      [] pc[r] \in {"reg_udp", "reg_tcp", "block_until_done"} -> "SocketsBound"
      [] pc[r] = "serving" -> "Serving"
      [] pc[r] \in {"match", "closure_end", "exited"} -> "Terminated"

StageOrder ==
    <<"NotStarted", "PlatformGateChecked", "AuthorityBuilt",
      "CatalogAssembled", "SocketsBound", "Serving", "Terminated">>

StageIndex(st) == CHOOSE i \in DOMAIN StageOrder : StageOrder[i] = st

\* The error-level records of run r, in order.
ErrorEntries(r) == SelectSeq(log[r], LAMBDA e : e.level = "error")

\* Run r holds neither port and has never tried to bind one.
NeverBound(r) ==
    /\ udpPort # r
    /\ tcpPort # r
    /\ attempts[r].udp = 0
    /\ attempts[r].tcp = 0

\* Run r never got as far as the runtime, the authority or a socket.
NothingStarted(r) ==
    /\ NeverBound(r)
    /\ ~rt[r]
    /\ authority[r] = NoAuthority
    /\ attempts[r].auth = 0
    /\ attempts[r].serving = 0
    /\ registered[r] = {}

\* C1: on the gated platform, a run whose exclusion gid is unavailable (or
\* not yet known) never binds the UDP socket or the TCP listener, creates no
\* runtime and builds no authority.
C1_NoGidNoBind ==
    \A r \in Runs :
        (platform = "macos" /\ gid[r] # "Some") => NothingStarted(r)

C1_Witness ==
    /\ platform = "macos"
    /\ \E r, q \in Runs :
          /\ gid[r] = "None"
          /\ pc[r] = "exited"
          /\ pc[q] = "serving"

\* C2: binding is all-or-nothing: a transport is registered only if both
\* the UDP and the TCP bind of the run succeeded; after a failed bind the run
\* has returned an error, no transport is registered and Serving was never
\* entered.
C2_AllOrNothingBind ==
    \A r \in Runs :
        /\ registered[r] # {} =>
              /\ attempts[r].udp = 1
              /\ attempts[r].tcp = 1
              /\ failure[r] \notin {"udp_bind", "tcp_bind"}
              /\ pc[r] # "closure_end" => (udpPort = r /\ tcpPort = r)
        /\ failure[r] \in {"udp_bind", "tcp_bind"} =>
              /\ Stage(r) = "Terminated"
              /\ result[r].tag = "Err"
              /\ registered[r] = {}
              /\ attempts[r].serving = 0

C2_Witness ==
    \E r, q \in Runs :
        /\ failure[r] = "tcp_bind"
        /\ attempts[r].udp = 1
        /\ pc[r] = "exited"
        /\ registered[q] = {"udp", "tcp"}

\* C3: start_resolver returns without waiting for the run, and no outcome of
\* a run aborts or blocks the caller: the host keeps running, a pending
\* return of start_resolver is always possible, and so is the caller's other
\* work.
C3_CallerNeverBlocked ==
    /\ host = "running"
    /\ callerPc = "in_start_resolver" => ENABLED StartResolverReturn
    /\ (callerPc = "idle" /\ callerSteps < MaxCallerSteps) => ENABLED CallerWork

C3_Witness ==
    /\ callerPc = "idle"
    /\ callerSteps > 0
    /\ \E r, q \in Runs :
          /\ failure[r] = "runtime"
          /\ pc[r] = "exited"
          /\ pc[q] = EntryPc

\* The failures that can end a run after its thread has started.
PreRunFailures == {"setgid", "runtime"}
RunResolverFailures == {"authority", "udp_bind", "tcp_bind", "serve"}

\* The terminal handler logged the error of run r.
HandlerLoggedError(r) ==
    /\ result[r].tag = "Err"
    /\ Len(log[r]) > 0
    /\ log[r][Len(log[r])] = ErrFailed(result[r].msg)

\* C4 as stated: every failure of a run, of whatever kind, ends with the
\* error logged by the terminal handler of the launcher.
C4_AllFailuresReachHandler ==
    \A r \in Runs :
        (pc[r] = "exited" /\ failure[r] \in PreRunFailures \cup RunResolverFailures)
            => HandlerLoggedError(r)

\* C4 amended: every failure inside run_resolver (authority construction,
\* UDP bind, TCP bind, serve loop) is returned as an Err and logged by the
\* terminal handler; a setgid failure is logged where it occurs and a runtime
\* creation failure panics, and neither reaches the terminal handler.
C4_RunFailuresReachHandler ==
    \A r \in Runs :
        /\ (pc[r] \in {"closure_end", "exited"} /\ failure[r] \in RunResolverFailures)
              => /\ HandlerLoggedError(r)
                 /\ ErrorEntries(r) = <<ErrFailed(result[r].msg)>>
        /\ failure[r] \in RunResolverFailures => result[r].tag = "Err"
        /\ failure[r] = "setgid" =>
              /\ result[r] = Pending
              /\ log[r] = <<ErrSetGid>>
        /\ failure[r] = "runtime" =>
              /\ result[r] = Pending
              /\ ErrorEntries(r) = << >>

C4_Witness ==
    \E r, q \in Runs :
        /\ pc[r] = "exited"
        /\ failure[r] = "serve"
        /\ pc[q] = "exited"
        /\ failure[q] = "udp_bind"

\* C5: once run_resolver has returned and the launcher has handled the
\* outcome, the run has exactly one error-level record: "Resolver stopped
\* unexpectedly" for Ok, the failure message for Err; before the handler runs
\* there is none.
C5_OneErrorPerOutcome ==
    \A r \in Runs :
        /\ pc[r] = "match" => /\ result[r].tag \in {"Ok", "Err"}
                              /\ ErrorEntries(r) = << >>
        /\ (pc[r] \in {"closure_end", "exited"} /\ result[r].tag = "Ok")
              => ErrorEntries(r) = <<ErrStopped>>
        /\ (pc[r] \in {"closure_end", "exited"} /\ result[r].tag = "Err")
              => ErrorEntries(r) = <<ErrFailed(result[r].msg)>>

C5_Witness ==
    \E r, q \in Runs :
        /\ pc[r] = "exited"
        /\ result[r] = Ok
        /\ pc[q] = "exited"
        /\ result[q].tag = "Err"

\* C6: on the gated platform, a run whose setgid call failed has logged an
\* error and ended without runtime, authority, socket or Serving.
C6_SetGidFailureAborts ==
    \A r \in Runs :
        (platform = "macos" /\ failure[r] = "setgid") =>
            /\ gid[r] = "Some"
            /\ pc[r] = "exited"
            /\ ErrSetGid \in {log[r][i] : i \in DOMAIN log[r]}
            /\ NothingStarted(r)

C6_Witness ==
    \E r \in Runs :
        /\ platform = "macos"
        /\ gid[r] = "Some"
        /\ failure[r] = "setgid"
        /\ pc[r] = "exited"

\* C7: on the gated platform, a run that ends because no exclusion gid is
\* obtainable has emitted no log record at all, while a run that ends because
\* setgid failed has emitted an error record.
C7_SilentSkipLoggedFailure ==
    \A r \in Runs :
        platform = "macos" =>
            /\ gid[r] = "None" => (pc[r] = "exited" /\ log[r] = << >>)
            /\ failure[r] = "setgid" => ErrorEntries(r) # << >>

C7_Witness ==
    \E r, q \in Runs :
        /\ platform = "macos"
        /\ gid[r] = "None"
        /\ pc[r] = "exited"
        /\ failure[q] = "setgid"
        /\ pc[q] = "exited"

\* Everything run r owns.
RunState(r) ==
    <<pc[r], gid[r], rt[r], authority[r], catalog[r], registered[r],
      result[r], log[r], failure[r], attempts[r], udpPort = r, tcpPort = r>>

AtMostOnce(a) ==
    /\ a.auth <= 1
    /\ a.udp <= 1
    /\ a.tcp <= 1
    /\ a.serving <= 1
    /\ a.term <= 1

\* C8: a run is single-shot: the authority build, the UDP bind, the TCP
\* bind, the entry into Serving and the termination each happen at most once;
\* a terminated run stays terminated, and once its thread has exited nothing
\* of the run changes any more.
C8_SingleShot ==
    /\ [](\A r \in Runs : pc[r] = "exited" => ~ENABLED RunStep(r))
    /\ [][\A r \in Runs :
             /\ AtMostOnce(attempts'[r])
             /\ Stage(r) = "Terminated" => Stage(r)' = "Terminated"
             /\ Stage(r) = "Serving" => Stage(r)' \in {"Serving", "Terminated"}
             /\ pc[r] = "exited" => RunState(r)' = RunState(r)]_vars

C8_Witness ==
    \E r, q \in Runs :
        /\ pc[r] = "exited"
        /\ attempts[r] = [auth |-> 1, udp |-> 1, tcp |-> 1, serving |-> 1, term |-> 1]
        /\ pc[q] = "exited"
        /\ failure[q] = "udp_bind"
        /\ attempts[q] = [auth |-> 1, udp |-> 1, tcp |-> 0, serving |-> 0, term |-> 1]

\* C9: a run moves through NotStarted, PlatformGateChecked, AuthorityBuilt,
\* CatalogAssembled, SocketsBound, Serving, Terminated in this order, one
\* stage at a time, except that it may jump from any stage to Terminated, and
\* then without an Ok result unless it was Serving; the gate is decided before
\* any network setup, and a port is held only with the authority built and
\* inserted into the catalog.
C9_StageOrder ==
    [][\A r \in Runs :
          /\ \/ Stage(r)' = Stage(r)
             \/ StageIndex(Stage(r)') = StageIndex(Stage(r)) + 1
             \/ Stage(r)' = "Terminated" /\ Stage(r) # "Serving"
                    /\ result'[r].tag # "Ok"
          /\ (platform = "macos" /\ gid'[r] # "Some") =>
                 Stage(r)' \in {"NotStarted", "Terminated"}
          /\ (udpPort' = r \/ tcpPort' = r \/ attempts'[r].udp > 0) =>
                 /\ authority'[r] = ForwardAuthority
                 /\ attempts'[r].auth = 1
                 /\ (Stage(r)' # "Terminated" =>
                        DOMAIN catalog'[r] = {LowerName(Root)})]_vars

C9_Witness ==
    \E r, q \in Runs :
        /\ Stage(r) = "Serving"
        /\ udpPort = r
        /\ tcpPort = r
        /\ Stage(q) = "Terminated"
        /\ failure[q] = "authority"

\* C10: while a run is in SocketsBound or Serving its catalog has exactly
\* one zone, keyed by the root name and mapped to the forwarding authority.
C10_CatalogOnlyRoot ==
    \A r \in Runs :
        Stage(r) \in {"SocketsBound", "Serving"} =>
            /\ DOMAIN catalog[r] = {Root}
            /\ Cardinality(DOMAIN catalog[r]) = 1
            /\ catalog[r][Root] = SharedHandle(ForwardAuthority)

C10_Witness ==
    \E r \in Runs :
        /\ Stage(r) = "Serving"
        /\ registered[r] = {"udp", "tcp"}
        /\ Root \in DOMAIN catalog[r]

\* Query q has a handler task that has not finished.
InFlight(q) == queries[q].st # "idle"

\* C11: queries handled concurrently all complete: the write side of the
\* authority handle is never held, a handler waiting for read access can
\* always take it whatever the other handlers hold, a handler holding read
\* access can always finish, and under fair scheduling every query in flight
\* leaves the handlers (answered, or dropped with the runtime of its run).
C11_ReadersComplete ==
    /\ [](\A r \in Runs : writers[r] = {})
    /\ [](\A q \in Queries :
            /\ InFlight(q) => rt[queries[q].run]
            /\ queries[q].st = "received" => ENABLED QueryLookup(q)
            /\ queries[q].st = "reading" => ENABLED QueryRespond(q))
    /\ \A q \in Queries : InFlight(q) ~> ~InFlight(q)

C11_Witness ==
    \E r \in Runs :
        /\ pc[r] = "serving"
        /\ Readers(r, Root) >= 2
        /\ responses # {}

\* C12: the insert of the root entry is the only mutation of a catalog:
\* a catalog changes only in the step that inserts the entry or in the step
\* in which the thread of the run exits, and every other step taken after the
\* insert (binds, registrations, query handling, the end of the serve loop,
\* the handler) leaves it as it is.
C12_CatalogReadOnly ==
    [][\A r \in Runs :
          /\ catalog'[r] # catalog[r] =>
                \/ pc[r] = "upsert" /\ pc'[r] = "udp_bind"
                \/ pc[r] = "closure_end" /\ pc'[r] = "exited"
          /\ (DOMAIN catalog[r] # {} /\ pc'[r] # "exited") =>
                catalog'[r] = catalog[r]]_vars

C12_Witness ==
    \E r \in Runs :
        /\ failure[r] = "serve"
        /\ pc[r] = "closure_end"
        /\ registered[r] = {}
        /\ responses # {}
        /\ catalog[r] = CatalogUpsert(CatalogNew, Root, SharedHandle(ForwardAuthority))

\* C13: a run whose authority construction failed has returned that error,
\* which the launcher logs; its catalog never received an entry, the
\* construction was tried once, and neither bind was attempted.
C13_AuthorityFailureFatal ==
    \A r \in Runs :
        failure[r] = "authority" =>
            /\ Stage(r) = "Terminated"
            /\ result[r] = Err("authority")
            /\ pc[r] # "match" => ErrorEntries(r) = <<ErrFailed("authority")>>
            /\ authority[r] = NoAuthority
            /\ DOMAIN catalog[r] = {}
            /\ attempts[r].auth = 1
            /\ NeverBound(r)
            /\ registered[r] = {}
            /\ attempts[r].serving = 0

C13_Witness ==
    \E r, q \in Runs :
        /\ failure[r] = "authority"
        /\ pc[r] = "exited"
        /\ failure[q] = "authority"
        /\ pc[q] = "match"

\* The response relayed from the fixed upstream resolver set.
Forwarded == [kind |-> "forwarded", from |-> Cloudflare]

\* C14: every query a run handles, whatever its name, finds the root zone
\* and is dispatched to the forwarding authority, and every response sent is
\* the one relayed from the fixed upstream resolver set: none is answered
\* from local records and none is refused for lack of a zone.
C14_QueriesForwarded ==
    /\ responses \subseteq {Forwarded}
    /\ \A q \in Queries :
          InFlight(q) =>
              LET cat == catalog[queries[q].run] IN
              /\ \A name \in QueryNames :
                    /\ CatalogFind(cat, LowerName(name)) = Zone(Root)
                    /\ Answer(cat[Root].authority) = Forwarded
              /\ queries[q].zone = Root

C14_Witness ==
    \E r \in Runs : \E q1, q2 \in Queries :
        /\ pc[r] = "serving"
        /\ queries[q1] = [st |-> "reading", run |-> r, zone |-> Root]
        /\ queries[q2] = [st |-> "received", run |-> r, zone |-> Root]
        /\ responses = {Forwarded}

\* On a build without the gate no run queries the exclusion gid or calls
\* setgid, and a spawned run is at runtime creation or beyond.
NoGate(r) ==
    /\ gid[r] = "unset"
    /\ pc[r] \notin {"get_gid", "setgid"}
    /\ failure[r] \notin {"no_gid", "setgid"}
    /\ ErrSetGid \notin {log[r][i] : i \in DOMAIN log[r]}
    /\ pc[r] # "unspawned" => Stage(r) # "NotStarted"

\* C15 as stated: without the gate every invocation goes on to runtime
\* creation and to the main routine, and setgid is never called: a run that
\* has ended has been through run_resolver.
C15_AlwaysReachesMainRoutine ==
    platform = "other" =>
        \A r \in Runs :
            /\ NoGate(r)
            /\ pc[r] = "exited" => result[r].tag \in {"Ok", "Err"}

\* C15 amended: without the gate every invocation goes on to runtime
\* creation, whatever the exclusion gid would be, and setgid is never called;
\* it goes on to the main routine unless the creation of the runtime fails,
\* which ends the run there.
C15_NoGateOnOtherPlatforms ==
    platform = "other" =>
        \A r \in Runs :
            /\ NoGate(r)
            /\ (pc[r] = "exited" /\ failure[r] # "runtime")
                  => result[r].tag \in {"Ok", "Err"}
            /\ failure[r] = "runtime" =>
                  (pc[r] = "exited" /\ result[r] = Pending /\ ~rt[r])
            /\ Stage(r) \notin {"NotStarted", "Terminated"} =>
                  (rt[r] \/ pc[r] = "rt_new")

C15_Witness ==
    /\ platform = "other"
    /\ \E r, q \in Runs :
          /\ pc[r] = "serving"
          /\ gid[r] = "unset"
          /\ failure[q] = "runtime"

\* C16: the UDP bind comes strictly before the TCP bind, which is tried
\* only with the UDP socket bound; a failed UDP bind ends the run without a
\* TCP bind; a transport is registered only after both binds have succeeded.
C16_UdpBindBeforeTcpBind ==
    \A r \in Runs :
        /\ pc[r] = "udp_bind" => (attempts[r].tcp = 0 /\ tcpPort # r)
        /\ pc[r] = "tcp_bind" => (attempts[r].udp = 1 /\ udpPort = r)
        /\ attempts[r].tcp > 0 =>
              (attempts[r].udp = 1 /\ failure[r] # "udp_bind")
        /\ failure[r] = "udp_bind" =>
              /\ Stage(r) = "Terminated"
              /\ attempts[r].tcp = 0
              /\ tcpPort # r
        /\ pc[r] \in {"udp_bind", "tcp_bind", "reg_udp"} => registered[r] = {}
        /\ pc[r] = "reg_udp" => (udpPort = r /\ tcpPort = r)

C16_Witness ==
    \E r, q \in Runs :
        /\ failure[r] = "udp_bind"
        /\ pc[r] = "exited"
        /\ pc[q] = "reg_udp"
        /\ attempts[q].tcp = 1

\* C17: a run whose thread has exited holds neither port, and a run whose
\* TCP bind failed after its UDP bind succeeded has released the UDP port by
\* the time run_resolver has returned.
C17_TerminatedHoldsNoSocket ==
    \A r \in Runs :
        /\ pc[r] = "exited" =>
              /\ udpPort # r
              /\ tcpPort # r
              /\ registered[r] = {}
        /\ failure[r] = "tcp_bind" =>
              /\ attempts[r].udp = 1
              /\ udpPort # r
              /\ tcpPort # r

C17_Witness ==
    \E r, q \in Runs :
        /\ failure[r] = "tcp_bind"
        /\ pc[r] = "match"
        /\ pc[q] = "exited"
        /\ attempts[q].serving = 1
        /\ udpPort = Free
        /\ tcpPort = Free

\* Run r has given up both ports.
HoldsNoPort(r) == udpPort # r /\ tcpPort # r

\* C18 as stated: with several runs, no state has one run holding the UDP
\* port while another holds the TCP port, at most one run is Serving, and at
\* most one run ever reaches Serving.
C18_OneRunEverServes ==
    \A r, q \in Runs :
        r # q =>
            /\ ~(udpPort = r /\ tcpPort = q)
            /\ ~(Stage(r) = "Serving" /\ Stage(q) = "Serving")
            /\ ~(attempts[r].serving = 1 /\ attempts[q].serving = 1)

\* C18 amended: with several runs and exclusive binds, at most one run is
\* Serving at any time and a Serving run holds both ports; one run holds the
\* UDP port while another holds the TCP port only while the latter, its serve
\* loop ended, is dropping its sockets and the former waits to bind TCP; two
\* runs reach Serving only one after the other, the earlier having given up
\* both ports; and a bind attempted while another run holds the port ends the
\* run with that bind error.
C18_OneRunServesAtATime ==
    /\ [](\A r, q \in Runs :
            r # q =>
                /\ ~(Stage(r) = "Serving" /\ Stage(q) = "Serving")
                /\ Stage(r) = "Serving" => (udpPort = r /\ tcpPort = r)
                /\ (udpPort = r /\ tcpPort = q) =>
                      /\ pc[r] = "tcp_bind"
                      /\ pc[q] = "closure_end"
                      /\ registered[q] = {"tcp"}
                /\ (attempts[r].serving = 1 /\ attempts[q].serving = 1) =>
                      (HoldsNoPort(r) \/ HoldsNoPort(q)))
    /\ [][\A r \in Runs :
            /\ (pc[r] = "udp_bind" /\ pc'[r] # "udp_bind" /\ udpPort \notin {Free, r})
                  => (failure'[r] = "udp_bind" /\ result'[r].tag = "Err")
            /\ (pc[r] = "tcp_bind" /\ pc'[r] # "tcp_bind" /\ tcpPort \notin {Free, r})
                  => (failure'[r] = "tcp_bind" /\ result'[r].tag = "Err")]_vars

C18_Witness ==
    \E r, q \in Runs :
        /\ r # q
        /\ udpPort = r
        /\ tcpPort = q
        /\ attempts[q].serving = 1

====
